---------------------------- MODULE Spec2Model ----------------------------
(***************************************************************************)
(* Model of MorseDiscord (src/main.py, src/utils/keyutils.py): a sine tone *)
(* that sounds while a set of keys is held and rings out to the end of the *)
(* current wave period when they are released.                             *)
(*                                                                         *)
(* Arithmetic.  The program computes times in seconds as floats.  The      *)
(* model computes them exactly, in ticks of 1/(SAMPLERATE*FREQUENCY)       *)
(* seconds, with FREQUENCY and SAMPLERATE positive integers:               *)
(*     1 / FREQUENCY             is  SAMPLERATE ticks (one period)         *)
(*     num_samples / SAMPLERATE  is  num_samples * FREQUENCY ticks         *)
(* Every time the program computes is a sum of such terms, so it is a      *)
(* whole number of ticks.  Only the ratio SAMPLERATE/FREQUENCY matters to  *)
(* the arithmetic, so integer pairs stand for every rational ratio.        *)
(*                                                                         *)
(* Rounding.  A float sum is the exact sum or a neighbour of it.  The      *)
(* program's branches can tell the two apart in two places only: the test  *)
(* offset != 0 (line 112) and the truncation int(...) (line 113), and in   *)
(* both only when the stored float lies above the exact value.  The model  *)
(* keeps that one bit, residue: the stored offset is `offset` ticks, or    *)
(* that plus a positive amount smaller than any tick.  Every addition      *)
(* offset += num_samples / SAMPLERATE (line 87) may leave either; the      *)
(* assignment offset = 0 (line 116) leaves none.  For instance, with       *)
(* FREQUENCY 525 and SAMPLERATE 44100 the program adds 256/44100 to 0.0,   *)
(* then 80/44100, subtracts 1/525 and is left with 2.17e-19, not 0.0.      *)
(* A stored float below the exact value behaves as the exact value does,   *)
(* sample for sample, and is modelled by it.                               *)
(*                                                                         *)
(* Samples.  A generated sample sin(2*pi*FREQUENCY*t)*VOLUME is a function *)
(* of the phase of t within the period; the model keeps that phase, in     *)
(* ticks.  A sample of the zero-filled buffer is Silence.                  *)
(***************************************************************************)
EXTENDS Integers, Sequences, FiniteSets, TLC

VARIABLES
    FREQUENCY,   \* main.py:153, Hz
    SAMPLERATE,  \* main.py:155, Hz
    CHANNELS,    \* main.py:156
    KEYS,        \* main.py:152, the names given to --keys: a list of strings,
                 \* each a sequence of characters
    keys,        \* main.py:158, key object -> held?
    offset,      \* main.py:159, phase offset, in ticks
    residue,     \* the stored float is above `offset` ticks by a rounding error
    outdata,     \* the buffer audio_callback last filled: frames x CHANNELS
    frames,      \* the frames argument of the last audio_callback (0: none yet)
    gate,        \* all(keys.values()) as the last audio_callback read it
    offset0,     \* the stored offset on entry of the last audio_callback
    residue0,    \* residue on entry of the last audio_callback
    num,         \* the samples the last audio_callback generated
    ringTotal,   \* samples generated by released invocations since the last tone
                 \* (counted up to SAMPLERATE + 1, more than any period holds)
    ringDone,    \* a released invocation since the last tone left a zero tail
    ringDone0,   \* ringDone on entry of the last audio_callback
    lastEvent,   \* key -> the kind of its most recent key event
    genStart,    \* GenSpec: the offset given to the first generate_audio call
    genStream,   \* GenSpec: the samples of the calls so far, concatenated
    genTotal,    \* GenSpec: the sum of num_samples over the calls so far
    genCalls,    \* GenSpec: the number of calls so far
    pc,          \* MainSpec: where __main__ is
    args,        \* main.py:148, the parsed arguments the model follows
    OUTPUT_DEVICE,  \* main.py:151, <<>> for None, <<i>> for index i
    output_device,  \* main.py:136
    retries,     \* main.py:49
    listener,    \* main.py:174, "none", "created", "running" or "stopped"
    stream,      \* main.py:178, "none", "open" or "closed"
    streamDevice,   \* the device= argument the stream was opened with
    exitStatus,  \* <<>> while running, <<n>> after the process ended with n
    raised,      \* <<>>, or <<name>> once ValueError("Unknown key: name") is raised
    typed,       \* the entries the operator has typed at the prompt of line 52
    lastEntry,   \* the last of them
    opens,       \* the times sd.OutputStream(...) has been called
    stops,       \* the times listener.stop() has been called
    cbpc,        \* ConcSpec: where the running audio_callback is: "idle" (none
                 \* running), "read" (in all(keys.values())), "branch" (line 107
                 \* evaluated, about to take a branch)
    pending,     \* ConcSpec: the keys all(...) has still to read
    gateRead,    \* ConcSpec: the conjunction of the key states read so far
    seen         \* ConcSpec: the values all designated keys held together took
                 \* at the instants of the running (or last) invocation

renderVars == <<offset, residue, outdata, frames, gate, offset0, residue0,
                num, ringTotal, ringDone, ringDone0>>

paramVars == <<FREQUENCY, SAMPLERATE, CHANNELS, KEYS>>

genVars == <<genStart, genStream, genTotal, genCalls>>

traceVars == <<typed, lastEntry, opens, stops>>

mainVars == <<pc, args, OUTPUT_DEVICE, output_device, retries, listener,
              stream, streamDevice, exitStatus, raised, traceVars>>

concVars == <<cbpc, pending, gateRead, seen>>

vars == <<paramVars, keys, lastEvent, renderVars, genVars, mainVars, concVars>>

(***************************************************************************)
(* Bounds of the model.                                                    *)
(***************************************************************************)
MaxFreq == 3
MaxRate == 5
MaxChannels == 2
MaxFrames == 3
MaxTotal == 6
MaxCalls == 3
NumDevices == 2
MaxKeys == 2

\* max_retries in choose_device
max_retries == 5

\* The key objects of the keyboard the model presses: Key.shift_r,
\* KeyCode(char='a') and KeyCode(char='x').
AllKeys == {"shift_r", "a", "x"}

\* The values of --keys Spec, GenSpec and MainSpec try: shift_r (the
\* default, line 133) and shift_r a.
DesignatedLists ==
    {<< <<"s", "h", "i", "f", "t", "_", "r">> >>,
     << <<"s", "h", "i", "f", "t", "_", "r">>, <<"a">> >>}

Silence == -1

Max(a, b) == IF a >= b THEN a ELSE b
Min(a, b) == IF a <= b THEN a ELSE b

(***************************************************************************)
(* keyutils.py.  A key object is modelled by a string: the member name of  *)
(* a keyboard.Key, the character of a keyboard.KeyCode.                    *)
(***************************************************************************)
\* SPECIAL_KEYS, two of its entries.
SPECIAL_KEYS ==
    (<<"s", "h", "i", "f", "t", "_", "r">> :> "shift_r") @@
    (<<"u", "p">> :> "up")

\* str.lower(), on the characters the model's names are made of.
lower(name) ==
    LET upper == ("A" :> "a") @@ ("B" :> "b") @@ ("F" :> "f") @@
                 ("H" :> "h") @@ ("I" :> "i") @@ ("P" :> "p") @@
                 ("R" :> "r") @@ ("S" :> "s") @@ ("T" :> "t") @@
                 ("U" :> "u") @@ ("X" :> "x")
    IN  [i \in 1..Len(name) |->
            IF name[i] \in DOMAIN upper THEN upper[name[i]] ELSE name[i]]

\* Mutant: the name is looked up as given.
key_object_as_given(name) ==
    IF name \in DOMAIN SPECIAL_KEYS
    THEN [key |-> SPECIAL_KEYS[name], error |-> <<>>]
    ELSE IF Len(name) = 1
         THEN [key |-> name[1], error |-> <<>>]
         ELSE [key |-> "", error |-> <<name>>]

\* key_object: the key object, or the ValueError raised, recorded by the
\* name its message shows.
key_object(name) ==
    LET n == lower(name)
    IN  IF n \in DOMAIN SPECIAL_KEYS
        THEN [key |-> SPECIAL_KEYS[n], error |-> <<>>]
        ELSE IF Len(n) = 1
             THEN [key |-> n[1], error |-> <<>>]
             ELSE [key |-> "", error |-> <<n>>]

\* keys_dict: the comprehension calls key_object name by name, so the first
\* name that raises ends it; otherwise equal key objects share one entry.
keys_dict(key_names) ==
    LET objs == [i \in 1..Len(key_names) |-> key_object(key_names[i])]
        bad == {i \in 1..Len(key_names) : objs[i].error # <<>>}
    IN  IF bad = {}
        THEN [keys  |-> [k \in {objs[i].key : i \in 1..Len(key_names)} |-> FALSE],
              error |-> <<>>]
        ELSE [keys  |-> <<>>,
              error |-> objs[CHOOSE i \in bad : \A j \in bad : i <= j].error]

\* The designated key objects.
Designated == DOMAIN keys_dict(KEYS).keys

\* all(keys.values())
all(d) == \A k \in DOMAIN d : d[k]

(***************************************************************************)
(* generate_audio                                                          *)
(***************************************************************************)
\* Mutant: endpoint=True, numpy's default: the last point is stop.
linspace_endpoint(start, stop, n) ==
    [i \in 1..n |->
        IF n = 1 THEN start ELSE start + ((i - 1) * (stop - start)) \div (n - 1)]

\* np.linspace(start, stop, n, endpoint=False): n points from start in steps
\* of (stop - start) / n.
linspace(start, stop, n) ==
    [i \in 1..n |-> start + ((i - 1) * (stop - start)) \div n]

\* Mutant: "if" for "while", one subtraction at most.
WrapOffset_once(o) == IF o >= SAMPLERATE THEN o - SAMPLERATE ELSE o

\* Mutant: ">" for ">=" in the loop test.
RECURSIVE WrapOffset_strict(_)
WrapOffset_strict(o) ==
    IF o > SAMPLERATE THEN WrapOffset_strict(o - SAMPLERATE) ELSE o

\* while offset >= 1 / FREQUENCY: offset -= 1 / FREQUENCY
RECURSIVE WrapOffset(_)
WrapOffset(o) ==
    IF o >= SAMPLERATE THEN WrapOffset(o - SAMPLERATE) ELSE o

\* np.sin(2 * np.pi * FREQUENCY * t): determined by the phase of t.
sin(t) == t % SAMPLERATE

\* Mutant: the samples go to the first channel only.
tile_first_channel(audio) ==
    [i \in 1..Len(audio) |->
        [c \in 1..CHANNELS |-> IF c = 1 THEN audio[i] ELSE Silence]]

\* np.tile(audio[:, np.newaxis], (1, CHANNELS))
tile(audio) ==
    [i \in 1..Len(audio) |-> [c \in 1..CHANNELS |-> audio[i]]]

\* Mutant: a guard for num_samples = 0 that returns a fresh offset.
generate_audio_zero_resets(num_samples, off) ==
    IF num_samples = 0
    THEN [audio |-> <<>>, offset |-> 0]
    ELSE LET t == linspace(off, num_samples * FREQUENCY + off, num_samples)
             audio == [i \in 1..num_samples |-> sin(t[i])]
         IN  [audio  |-> tile(audio),
              offset |-> WrapOffset(off + num_samples * FREQUENCY)]

generate_audio(num_samples, off) ==
    LET t == linspace(off, num_samples * FREQUENCY + off, num_samples)
        audio == [i \in 1..num_samples |-> sin(t[i])]
    IN  [audio  |-> tile(audio),
         offset |-> WrapOffset(off + num_samples * FREQUENCY)]

\* np.zeros((frames, CHANNELS))
zeros(n) == [i \in 1..n |-> [c \in 1..CHANNELS |-> Silence]]

\* int(x) for x = numer / denom, denom > 0: truncation toward zero.
int(numer, denom) ==
    IF numer >= 0 THEN numer \div denom ELSE -((-numer) \div denom)

(***************************************************************************)
(* on_press / on_release                                                   *)
(***************************************************************************)
on_press_keys(key) == IF key \in DOMAIN keys THEN [keys EXCEPT ![key] = TRUE] ELSE keys

\* Mutant: keys[key] = False without the membership test.
on_release_keys_unchecked(key) ==
    [k \in DOMAIN keys \cup {key} |-> IF k = key THEN FALSE ELSE keys[k]]

on_release_keys(key) == IF key \in DOMAIN keys THEN [keys EXCEPT ![key] = FALSE] ELSE keys

RenderUnchanged == UNCHANGED renderVars

ParamsUnchanged == UNCHANGED paramVars

\* Mutant: a key press restarts the wave at phase 0.
on_press_resets_offset(key) ==
    /\ keys' = on_press_keys(key)
    /\ lastEvent' = [lastEvent EXCEPT ![key] = "press"]
    /\ offset' = 0
    /\ residue' = FALSE
    /\ UNCHANGED <<outdata, frames, gate, offset0, residue0, num, ringTotal,
                   ringDone, ringDone0>>
    /\ ParamsUnchanged
    /\ UNCHANGED <<genVars, mainVars>>

on_press(key) ==
    /\ keys' = on_press_keys(key)
    /\ lastEvent' = [lastEvent EXCEPT ![key] = "press"]
    /\ RenderUnchanged
    /\ ParamsUnchanged
    /\ UNCHANGED <<genVars, mainVars>>

on_release(key) ==
    /\ keys' = on_release_keys(key)
    /\ lastEvent' = [lastEvent EXCEPT ![key] = "release"]
    /\ RenderUnchanged
    /\ ParamsUnchanged
    /\ UNCHANGED <<genVars, mainVars>>

(***************************************************************************)
(* audio_callback                                                          *)
(***************************************************************************)
\* round(x) for x = numer / denom >= 0, denom > 0: Python's round, to the
\* nearest integer and to the even one at a tie.
round(numer, denom) ==
    LET q == numer \div denom
        r == numer % denom
    IN  IF 2 * r < denom THEN q
        ELSE IF 2 * r > denom THEN q + 1
        ELSE IF q % 2 = 0 THEN q ELSE q + 1

\* Mutant: round for int.
remaining_samples_round(off) == round(SAMPLERATE - off, FREQUENCY)

\* Mutant: the stored offset is not subtracted from the period.
remaining_samples_full_period(off) == int(SAMPLERATE, FREQUENCY)

\* num = int(((1 / FREQUENCY) - offset) * SAMPLERATE), for the stored
\* offset: `off` ticks, or just above them.  For whole x >= 1 the integer
\* part of (x - e) / FREQUENCY, e positive and below any tick, is that of
\* (x - 1) / FREQUENCY.
remaining_samples(off) ==
    int(SAMPLERATE - off - (IF residue THEN 1 ELSE 0), FREQUENCY)

\* Mutant: the else branch without "if num == 0: offset = 0; return".
release_tail_no_snap(fr, off) ==
    IF off = 0 /\ ~residue
    THEN [outdata |-> zeros(fr), offset |-> off, num |-> 0,
          residue |-> {FALSE}]
    ELSE LET n == remaining_samples(off)
             m == IF n > fr THEN fr ELSE n
             g == generate_audio(m, off)
         IN  [outdata |-> [i \in 1..fr |->
                             IF i <= m THEN g.audio[i] ELSE zeros(fr)[i]],
              offset  |-> Max(0, g.offset),
              num     |-> m,
              residue |-> IF m > 0 THEN BOOLEAN ELSE {residue}]

\* Mutant: the else branch without the test "if offset != 0".
release_tail_unguarded(fr, off) ==
    LET n == remaining_samples(off)
    IN  IF n = 0
        THEN [outdata |-> zeros(fr), offset |-> 0, num |-> 0,
              residue |-> {FALSE}]
        ELSE LET m == IF n > fr THEN fr ELSE n
                 g == generate_audio(m, off)
             IN  [outdata |-> [i \in 1..fr |->
                                 IF i <= m THEN g.audio[i] ELSE zeros(fr)[i]],
                  offset  |-> Max(0, g.offset),
                  num     |-> m,
                  residue |-> BOOLEAN]

\* The else branch (lines 111-122): the buffer, the new offset, the number
\* of samples generated, and the rounding errors the new offset can carry:
\* either after the addition of line 87, none after offset = 0.
release_tail(fr, off) ==
    IF off = 0 /\ ~residue
    THEN [outdata |-> zeros(fr), offset |-> off, num |-> 0,
          residue |-> {FALSE}]
    ELSE LET n == remaining_samples(off)
         IN  IF n = 0
             THEN [outdata |-> zeros(fr), offset |-> 0, num |-> 0,
                   residue |-> {FALSE}]
             ELSE LET m == IF n > fr THEN fr ELSE n
                      g == generate_audio(m, off)
                  IN  [outdata |-> [i \in 1..fr |->
                                      IF i <= m THEN g.audio[i] ELSE zeros(fr)[i]],
                       offset  |-> Max(0, g.offset),
                       num     |-> m,
                       residue |-> BOOLEAN]

\* Mutant: the tone branch drops the offset generate_audio returns.
callback_result_drops_offset(fr, off, g) ==
    IF g
    THEN LET r == generate_audio(fr, off)
         IN  [outdata |-> r.audio, offset |-> off, num |-> fr,
              residue |-> {residue}]
    ELSE release_tail(fr, off)

\* The whole callback: buffer, offset, samples generated.
callback_result(fr, off, g) ==
    IF g
    THEN LET r == generate_audio(fr, off)
         IN  [outdata |-> r.audio, offset |-> r.offset, num |-> fr,
              residue |-> BOOLEAN]
    ELSE release_tail(fr, off)

\* Lines 108-122, for the value g that line 107 found.
render(fr, g) ==
    LET r == callback_result(fr, offset, g)
    IN  /\ outdata' = r.outdata
        /\ offset' = r.offset
        /\ residue' \in r.residue
        /\ frames' = fr
        /\ gate' = g
        /\ offset0' = offset
        /\ residue0' = residue
        /\ num' = r.num
        /\ ringTotal' = IF g THEN 0 ELSE Min(ringTotal + r.num, SAMPLERATE + 1)
        /\ ringDone' = IF g THEN FALSE
                       ELSE ringDone \/ r.outdata[fr][1] = Silence
        /\ ringDone0' = ringDone
        /\ UNCHANGED <<keys, lastEvent>>
        /\ ParamsUnchanged
        /\ UNCHANGED <<genVars, mainVars>>

\* The callback as one step, the handlers running before or after it.
audio_callback(fr) == render(fr, all(keys)) /\ UNCHANGED concVars

(***************************************************************************)
(* Spec: the render loop and the key handlers, each invoked at will, from  *)
(* the state main sets up at lines 150-159.                                *)
(***************************************************************************)
\* The parameters, lines 150-156.
ParamsInit ==
    /\ FREQUENCY \in 1..MaxFreq
    /\ SAMPLERATE \in 1..MaxRate
    /\ CHANNELS \in 1..MaxChannels
    /\ KEYS \in DesignatedLists

\* Lines 158-159, and no callback invoked yet.
RenderInit ==
    /\ keys = keys_dict(KEYS).keys
    /\ offset = 0
    /\ outdata = <<>>
    /\ frames = 0
    /\ gate = FALSE
    /\ offset0 = 0
    /\ num = 0
    /\ residue = FALSE
    /\ residue0 = FALSE
    /\ ringTotal = 0
    /\ ringDone = FALSE
    /\ ringDone0 = FALSE
    /\ lastEvent = [k \in AllKeys |-> "none"]

\* No audio_callback is running.
ConcIdle ==
    /\ cbpc = "idle"
    /\ pending = {}
    /\ gateRead = FALSE
    /\ seen = {}

GenIdle ==
    /\ genStart = 0
    /\ genStream = <<>>
    /\ genTotal = 0
    /\ genCalls = 0

\* __main__ at line 161, run without arguments.
MainIdle ==
    /\ pc = "list_devices"
    /\ args = [device |-> <<>>, list_devices |-> FALSE]
    /\ OUTPUT_DEVICE = <<>>
    /\ output_device = <<>>
    /\ retries = 0
    /\ listener = "none"
    /\ stream = "none"
    /\ streamDevice = <<>>
    /\ exitStatus = <<>>
    /\ raised = <<>>
    /\ typed = 0
    /\ lastEntry = <<>>
    /\ opens = 0
    /\ stops = 0

Init == ParamsInit /\ RenderInit /\ GenIdle /\ MainIdle /\ ConcIdle

Press == (\E k \in AllKeys : on_press(k)) /\ UNCHANGED concVars

Release == (\E k \in AllKeys : on_release(k)) /\ UNCHANGED concVars

Callback == \E fr \in 1..MaxFrames : audio_callback(fr)

Next == Press \/ Release \/ Callback

Spec == Init /\ [][Next]_vars

\* The audio subsystem keeps invoking the callback while the stream is open.
FairSpec == Spec /\ WF_vars(Callback)

(***************************************************************************)
(* GenSpec: generate_audio alone, called again and again, each call given  *)
(* the offset the call before returned:                                    *)
(*     audio, offset = generate_audio(n, offset)                           *)
(* from any offset in [0, period).                                         *)
(***************************************************************************)
GenInit ==
    /\ ParamsInit
    /\ keys = keys_dict(KEYS).keys
    /\ offset \in 0..(SAMPLERATE - 1)
    /\ outdata = <<>>
    /\ frames = 0
    /\ gate = FALSE
    /\ offset0 = offset
    /\ num = 0
    /\ residue = FALSE
    /\ residue0 = FALSE
    /\ ringTotal = 0
    /\ ringDone = FALSE
    /\ ringDone0 = FALSE
    /\ lastEvent = [k \in AllKeys |-> "none"]
    /\ genStart = offset
    /\ genStream = <<>>
    /\ genTotal = 0
    /\ genCalls = 0
    /\ MainIdle
    /\ ConcIdle

Generate(n) ==
    /\ genCalls < MaxCalls
    /\ genTotal + n <= MaxTotal
    /\ LET r == generate_audio(n, offset)
       IN  /\ outdata' = r.audio
           /\ offset' = r.offset
           /\ genStream' = genStream \o r.audio
    /\ residue' \in IF n > 0 THEN BOOLEAN ELSE {residue}
    /\ offset0' = offset
    /\ residue0' = residue
    /\ num' = n
    /\ genTotal' = genTotal + n
    /\ genCalls' = genCalls + 1
    /\ genStart' = genStart
    /\ UNCHANGED <<frames, gate, ringTotal, ringDone, ringDone0>>
    /\ UNCHANGED <<paramVars, keys, lastEvent, mainVars, concVars>>

GenNext == \E n \in 0..MaxFrames : Generate(n)

GenSpec == GenInit /\ [][GenNext]_vars

(***************************************************************************)
(* MainSpec: __main__ from line 161 on, with the audio subsystem invoking  *)
(* audio_callback while the stream is open and the operator pressing and   *)
(* releasing keys.                                                         *)
(***************************************************************************)
\* args.device: absent, or an integer (in range or not).
DeviceArgs == {<<>>} \cup {<<i>> : i \in -1..NumDevices}

\* What the operator types at the prompt: <<i>> for the integer i, <<>> for
\* text int() rejects.
Entries == {<<>>} \cup {<<i>> : i \in -1..NumDevices}

\* Mutant: ">" for ">=" in the range test, so that len(devices) passes.
InRange_inclusive(d) == d # <<>> /\ d[1] >= 0 /\ d[1] <= NumDevices

\* 0 <= output_device < len(devices)
InRange(d) == d # <<>> /\ d[1] >= 0 /\ d[1] < NumDevices

\* Mutant: stop() fails on a listener that is not running.
listener_stop_raises(l) == IF l = "running" THEN "stopped" ELSE "error"

\* listener.stop(): stops a running listener; nothing to do otherwise.
listener_stop(l) == IF l = "running" THEN "stopped" ELSE l

\* keyboard.Listener delivers an event to its handler only while it runs.
deliver(l, handled) == IF l = "running" THEN handled ELSE keys

\* The program run with the default frequency, sample rate and channel
\* count (lines 131-135).
MainInit ==
    /\ FREQUENCY = 440
    /\ SAMPLERATE = 44100
    /\ CHANNELS = 2
    /\ KEYS \in DesignatedLists
    /\ RenderInit
    /\ GenIdle
    /\ ConcIdle
    /\ pc = "list_devices"
    /\ args \in [device : DeviceArgs, list_devices : BOOLEAN]
    /\ OUTPUT_DEVICE = args.device
    /\ output_device = <<>>
    /\ retries = 0
    /\ listener = "none"
    /\ stream = "none"
    /\ streamDevice = <<>>
    /\ exitStatus = <<>>
    /\ raised = <<>>
    /\ typed = 0
    /\ lastEntry = <<>>
    /\ opens = 0
    /\ stops = 0

\* Steps of __main__ after line 158: they raise no ValueError of keyutils.
HandlersUnchanged ==
    UNCHANGED <<paramVars, keys, lastEvent, renderVars, genVars, raised,
                concVars>>

\* Lines 161-166.
ListDevices ==
    /\ pc = "list_devices"
    /\ IF args.list_devices
       THEN pc' = "exit" /\ exitStatus' = <<0>>
       ELSE pc' = "select_device" /\ exitStatus' = exitStatus
    /\ UNCHANGED <<args, OUTPUT_DEVICE, output_device, retries, listener,
                   stream, streamDevice>>
    /\ UNCHANGED traceVars
    /\ HandlersUnchanged

\* Lines 168-172.
SelectDevice ==
    /\ pc = "select_device"
    /\ IF OUTPUT_DEVICE = <<>>
       THEN pc' = "choose_device" /\ exitStatus' = exitStatus
       ELSE IF ~InRange(OUTPUT_DEVICE)
            THEN pc' = "exit" /\ exitStatus' = <<1>>
            ELSE pc' = "listener" /\ exitStatus' = exitStatus
    /\ retries' = 0
    /\ UNCHANGED <<args, OUTPUT_DEVICE, output_device, listener, stream,
                   streamDevice>>
    /\ UNCHANGED traceVars
    /\ HandlersUnchanged

\* One turn of the loop of choose_device, lines 50-58.
choose_device(entry) ==
    /\ pc = "choose_device"
    /\ retries < max_retries
    /\ IF InRange(entry)
       THEN /\ OUTPUT_DEVICE' = entry
            /\ pc' = "listener"
            /\ retries' = retries
       ELSE /\ OUTPUT_DEVICE' = OUTPUT_DEVICE
            /\ pc' = pc
            /\ retries' = retries + 1
    /\ UNCHANGED <<args, output_device, listener, stream, streamDevice,
                   exitStatus>>
    /\ typed' = typed + 1
    /\ lastEntry' = entry
    /\ UNCHANGED <<opens, stops>>
    /\ HandlersUnchanged

\* Lines 59-60.
choose_device_exit ==
    /\ pc = "choose_device"
    /\ ~(retries < max_retries)
    /\ pc' = "exit"
    /\ exitStatus' = <<1>>
    /\ UNCHANGED <<args, OUTPUT_DEVICE, output_device, retries, listener,
                   stream, streamDevice>>
    /\ UNCHANGED traceVars
    /\ HandlersUnchanged

\* Lines 174-175: the listener is constructed; nothing starts it.
CreateListener ==
    /\ pc = "listener"
    /\ listener' = "created"
    /\ pc' = "open_stream"
    /\ UNCHANGED <<args, OUTPUT_DEVICE, output_device, retries, stream,
                   streamDevice, exitStatus>>
    /\ UNCHANGED traceVars
    /\ HandlersUnchanged

\* Lines 178-187: sd.OutputStream(...) opens, or raises.
OpenStream(ok) ==
    /\ pc = "open_stream"
    /\ IF ok
       THEN /\ stream' = "open"
            /\ streamDevice' = output_device
            /\ pc' = "idle"
       ELSE /\ stream' = stream
            /\ streamDevice' = streamDevice
            /\ pc' = "except"
    /\ UNCHANGED <<args, OUTPUT_DEVICE, output_device, retries, listener,
                   exitStatus>>
    /\ opens' = opens + 1
    /\ UNCHANGED <<typed, lastEntry, stops>>
    /\ HandlersUnchanged

\* The audio subsystem invokes the callback of an open stream.
StreamCallback ==
    /\ stream = "open"
    /\ \E fr \in 1..MaxFrames : audio_callback(fr)

\* The operator presses or releases a key; the listener, if running, calls
\* on_press / on_release.
KeyEvent(key, kind) ==
    /\ listener # "none"
    /\ pc \notin {"exit", "done"}
    /\ lastEvent' = [lastEvent EXCEPT ![key] = kind]
    /\ keys' = deliver(listener, IF kind = "press" THEN on_press_keys(key)
                                                   ELSE on_release_keys(key))
    /\ UNCHANGED <<paramVars, renderVars, genVars, mainVars, concVars>>

\* Lines 195-197: KeyboardInterrupt during the idle wait.
Interrupt ==
    /\ pc = "idle"
    /\ listener' = listener_stop(listener)
    /\ pc' = "close_stream"
    /\ UNCHANGED <<args, OUTPUT_DEVICE, output_device, retries, stream,
                   streamDevice, exitStatus>>
    /\ stops' = stops + 1
    /\ UNCHANGED <<typed, lastEntry, opens>>
    /\ HandlersUnchanged

\* The end of the with block: the stream closes and calls finished_callback
\* (line 175).
CloseStream ==
    /\ pc = "close_stream"
    /\ stream' = "closed"
    /\ listener' = IF listener = "running" THEN listener_stop(listener) ELSE listener
    /\ pc' = "finally"
    /\ UNCHANGED <<args, OUTPUT_DEVICE, output_device, retries, streamDevice,
                   exitStatus>>
    /\ stops' = IF listener = "running" THEN stops + 1 ELSE stops
    /\ UNCHANGED <<typed, lastEntry, opens>>
    /\ HandlersUnchanged

\* Lines 198-200.
ExceptHandler ==
    /\ pc = "except"
    /\ listener' = listener_stop(listener)
    /\ pc' = "finally"
    /\ UNCHANGED <<args, OUTPUT_DEVICE, output_device, retries, stream,
                   streamDevice, exitStatus>>
    /\ stops' = stops + 1
    /\ UNCHANGED <<typed, lastEntry, opens>>
    /\ HandlersUnchanged

\* Lines 201-203.
Finally ==
    /\ pc = "finally"
    /\ listener' = listener_stop(listener)
    /\ pc' = "done"
    /\ exitStatus' = <<0>>
    /\ UNCHANGED <<args, OUTPUT_DEVICE, output_device, retries, stream,
                   streamDevice>>
    /\ stops' = stops + 1
    /\ UNCHANGED <<typed, lastEntry, opens>>
    /\ HandlersUnchanged

MainNext ==
    \/ ListDevices
    \/ SelectDevice
    \/ \E entry \in Entries : choose_device(entry)
    \/ choose_device_exit
    \/ CreateListener
    \/ \E ok \in BOOLEAN : OpenStream(ok)
    \/ StreamCallback
    \/ \E key \in AllKeys, kind \in {"press", "release"} : KeyEvent(key, kind)
    \/ Interrupt
    \/ CloseStream
    \/ ExceptHandler
    \/ Finally

MainSpec == MainInit /\ [][MainNext]_vars

(***************************************************************************)
(* KeySpec: __main__ from line 158 on, for any list of one to MaxKeys       *)
(* names given to --keys.                                                   *)
(***************************************************************************)
\* The names tried: Shift_R, A, a, ab and the empty string.
Names ==
    {<<"S", "h", "i", "f", "t", "_", "R">>, <<"A">>, <<"a">>, <<"a", "b">>,
     <<>>}

\* nargs='+': at least one name.
KeyLists == UNION {[1..n -> Names] : n \in 1..MaxKeys}

KeyInit ==
    /\ FREQUENCY = 440
    /\ SAMPLERATE = 44100
    /\ CHANNELS = 2
    /\ KEYS \in KeyLists
    /\ keys = <<>>
    /\ offset = 0
    /\ residue = FALSE
    /\ outdata = <<>>
    /\ frames = 0
    /\ gate = FALSE
    /\ offset0 = 0
    /\ residue0 = FALSE
    /\ num = 0
    /\ ringTotal = 0
    /\ ringDone = FALSE
    /\ ringDone0 = FALSE
    /\ lastEvent = [k \in AllKeys |-> "none"]
    /\ GenIdle
    /\ ConcIdle
    /\ pc = "keys_dict"
    /\ args \in [device : {<<>>, <<0>>}, list_devices : {FALSE}]
    /\ OUTPUT_DEVICE = args.device
    /\ output_device = <<>>
    /\ retries = 0
    /\ listener = "none"
    /\ stream = "none"
    /\ streamDevice = <<>>
    /\ exitStatus = <<>>
    /\ raised = <<>>
    /\ typed = 0
    /\ lastEntry = <<>>
    /\ opens = 0
    /\ stops = 0

\* Line 158: keys = keys_dict(KEYS); a ValueError is caught nowhere and ends
\* the process.
KeysDict ==
    /\ pc = "keys_dict"
    /\ LET r == keys_dict(KEYS)
       IN  IF r.error = <<>>
           THEN /\ keys' = r.keys
                /\ raised' = raised
                /\ pc' = "list_devices"
                /\ exitStatus' = exitStatus
           ELSE /\ keys' = keys
                /\ raised' = r.error
                /\ pc' = "exit"
                /\ exitStatus' = <<1>>
    /\ UNCHANGED <<args, OUTPUT_DEVICE, output_device, retries, listener,
                   stream, streamDevice, traceVars>>
    /\ UNCHANGED <<paramVars, lastEvent, renderVars, genVars, concVars>>

KeyNext == KeysDict \/ MainNext

KeySpec == KeyInit /\ [][KeyNext]_vars

(***************************************************************************)
(* FrameSpec: the three contexts of the program after line 172: __main__    *)
(* from line 174 to its end, the audio subsystem invoking audio_callback    *)
(* while the stream is open, and the handlers on_press and on_release,      *)
(* each invoked at will; two designated keys, one channel.                  *)
(***************************************************************************)
FrameInit ==
    /\ FREQUENCY \in 1..MaxFreq
    /\ SAMPLERATE \in 1..MaxRate
    /\ CHANNELS = 1
    /\ KEYS = << <<"s", "h", "i", "f", "t", "_", "r">>, <<"a">> >>
    /\ RenderInit
    /\ GenIdle
    /\ ConcIdle
    /\ pc = "listener"
    /\ args = [device |-> <<0>>, list_devices |-> FALSE]
    /\ OUTPUT_DEVICE = <<0>>
    /\ output_device = <<>>
    /\ retries = 0
    /\ listener = "none"
    /\ stream = "none"
    /\ streamDevice = <<>>
    /\ exitStatus = <<>>
    /\ raised = <<>>
    /\ typed = 0
    /\ lastEntry = <<>>
    /\ opens = 0
    /\ stops = 0

FrameNext ==
    \/ Press
    \/ Release
    \/ CreateListener
    \/ \E ok \in BOOLEAN : OpenStream(ok)
    \/ StreamCallback
    \/ Interrupt
    \/ CloseStream
    \/ ExceptHandler
    \/ Finally

FrameSpec == FrameInit /\ [][FrameNext]_vars

(***************************************************************************)
(* ConcSpec: audio_callback on the audio thread, taken step by step, with   *)
(* on_press and on_release on the listener's thread running between its    *)
(* steps; two designated keys.  Both threads run Python code, so each runs  *)
(* only while it holds the interpreter's lock, which a thread can lose      *)
(* between two bytecodes and not inside a call of C code that runs no       *)
(* Python code.                                                             *)
(***************************************************************************)
\* Mutant: a loop in Python, one key read per step.
read_batch_one(p) == {CHOOSE k \in p : TRUE}

\* The keys all(keys.values()) reads in one step: all of them.  all() and
\* the iterator of the dict's values are C code and the values are bools,
\* so no Python code runs inside the call.
read_batch(p) == p

ConcInit ==
    /\ FREQUENCY \in 1..MaxFreq
    /\ SAMPLERATE = MaxRate
    /\ CHANNELS = 1
    /\ KEYS = << <<"s", "h", "i", "f", "t", "_", "r">>, <<"a">> >>
    /\ RenderInit
    /\ GenIdle
    /\ MainIdle
    /\ ConcIdle

\* The audio subsystem calls audio_callback; it reaches line 107.
CbEnter ==
    /\ cbpc = "idle"
    /\ cbpc' = "read"
    /\ pending' = DOMAIN keys
    /\ gateRead' = TRUE
    /\ seen' = {all(keys)}
    /\ UNCHANGED <<paramVars, keys, lastEvent, renderVars, genVars, mainVars>>

\* all(keys.values()) reads key states, and returns at the first False.
CbRead ==
    /\ cbpc = "read"
    /\ LET b == read_batch(pending)
           v == gateRead /\ \A k \in b : keys[k]
       IN  /\ gateRead' = v
           /\ pending' = pending \ b
           /\ cbpc' = IF pending \ b = {} \/ ~v THEN "branch" ELSE "read"
    /\ UNCHANGED seen
    /\ UNCHANGED <<paramVars, keys, lastEvent, renderVars, genVars, mainVars>>

\* Lines 107-122 from the value read on.
CbBranch ==
    /\ cbpc = "branch"
    /\ \E fr \in 1..MaxFrames : render(fr, gateRead)
    /\ cbpc' = "idle"
    /\ UNCHANGED <<pending, gateRead, seen>>

\* A handler runs; if an invocation is under way, the instant after it is
\* one of that invocation's.
ConcPress ==
    /\ \E k \in Designated : on_press(k)
    /\ seen' = IF cbpc = "idle" THEN seen ELSE seen \cup {all(keys')}
    /\ UNCHANGED <<cbpc, pending, gateRead>>

ConcRelease ==
    /\ \E k \in Designated : on_release(k)
    /\ seen' = IF cbpc = "idle" THEN seen ELSE seen \cup {all(keys')}
    /\ UNCHANGED <<cbpc, pending, gateRead>>

ConcNext == ConcPress \/ ConcRelease \/ CbEnter \/ CbRead \/ CbBranch

ConcSpec == ConcInit /\ [][ConcNext]_vars

(***************************************************************************)
(* Properties of the render loop and the key handlers (Spec).              *)
(***************************************************************************)
\* Frame i of the buffer holds, in every channel, the sample generated at
\* offset0 + (i - 1) / SAMPLERATE.
Generated(i) ==
    \A c \in 1..CHANNELS :
        outdata[i][c] = (offset0 + (i - 1) * FREQUENCY) % SAMPLERATE

\* Frame i of the buffer is zero-filled.
Silent(i) == \A c \in 1..CHANNELS : outdata[i][c] = Silence

\* C1: an invocation that sees the gate asserted fills all `frames` frames
\* with the samples generated from the stored offset, none left silent, and
\* stores the offset advanced by frames / SAMPLERATE, wrapped into the period.
C1_ToneFillsBuffer ==
    (frames > 0 /\ gate) =>
        /\ Len(outdata) = frames
        /\ \A i \in 1..frames : Generated(i) /\ ~Silent(i)
        /\ num = frames
        /\ offset = (offset0 + frames * FREQUENCY) % SAMPLERATE

C1_Witness ==
    /\ gate
    /\ frames = MaxFrames
    /\ offset0 # 0
    /\ offset # offset0

\* C4: an invocation that sees the gate released with the stored offset at 0
\* writes a buffer of zeros and leaves the offset at 0 (so the next released
\* invocation finds the offset at 0 again).
C4_GateOffSteadyState ==
    (frames > 0 /\ ~gate /\ offset0 = 0 /\ ~residue0) =>
        /\ Len(outdata) = frames
        /\ \A i \in 1..frames : Silent(i)
        /\ num = 0
        /\ offset = 0

\* The steady state reached after a ring-out, and kept for a second buffer.
C4_Witness ==
    /\ frames > 0
    /\ ~gate
    /\ offset0 = 0
    /\ ~residue0
    /\ ringTotal > 0
    /\ ringDone0

\* C5 as claimed: a released invocation with a non-zero stored offset
\* generates min(frames, round((period - offset) * sample_rate)) samples
\* (stated for the stored offsets that carry no rounding error).
C5_RoundedRemaining ==
    (frames > 0 /\ ~gate /\ offset0 # 0 /\ ~residue0) =>
        num = Min(frames, round(SAMPLERATE - offset0, FREQUENCY))

\* C5 amended: a released invocation with a non-zero stored offset generates
\* min(frames, remaining) samples at the beginning of the buffer, remaining
\* being (period - offset) * sample_rate truncated to an integer; every later
\* frame is zero; when remaining is 0 the buffer is zero and the offset is 0.
C5_TruncatedRemaining ==
    (frames > 0 /\ ~gate /\ (offset0 # 0 \/ residue0)) =>
        LET remaining == IF residue0
                         THEN (SAMPLERATE - offset0 - 1) \div FREQUENCY
                         ELSE (SAMPLERATE - offset0) \div FREQUENCY
        IN  /\ Len(outdata) = frames
            /\ num = Min(frames, remaining)
            /\ \A i \in 1..frames :
                   IF i <= num THEN Generated(i) /\ ~Silent(i) ELSE Silent(i)
            /\ remaining = 0 => offset = 0

\* A ring-out shorter than the buffer, where rounding and truncation differ.
C5_Witness ==
    /\ frames > 0
    /\ ~gate
    /\ offset0 # 0
    /\ ~residue0
    /\ num > 0
    /\ num < frames
    /\ round(SAMPLERATE - offset0, FREQUENCY) # (SAMPLERATE - offset0) \div FREQUENCY

\* C7: the samples generated by the released invocations since the last tone
\* number at most ceil(sample_rate / frequency).
C7_RingOutWithinOnePeriod ==
    ringTotal * FREQUENCY < SAMPLERATE + FREQUENCY

\* C8: the stored offset is in [0, period).
C8_OffsetInPeriod == 0 <= offset /\ offset < SAMPLERATE

\* A tone buffer longer than two periods, and one that ends inside a period.
C8_Witness ==
    /\ gate
    /\ offset0 + frames * FREQUENCY >= 2 * SAMPLERATE
    /\ offset > 0

\* C10: the gate is true iff the most recent event of every designated key
\* is a press; it is false before any event; the events of other keys do not
\* enter into it.
C10_GateIffAllPressed ==
    /\ DOMAIN keys = Designated
    /\ all(keys) <=> \A k \in Designated : lastEvent[k] = "press"
    /\ (\A k \in AllKeys : lastEvent[k] = "none") => ~all(keys)

\* Two designated keys held, after a key outside the set was released.
C10_Witness ==
    /\ Cardinality(Designated) = 2
    /\ all(keys)
    /\ lastEvent["x"] = "release"

\* C6: once a released invocation has left a zero-filled tail, no later
\* released invocation generates a sample before the next tone: the ring-out
\* is one contiguous run and silence follows it.
C6_RingOutFinishes ==
    (frames > 0 /\ ~gate /\ ringDone0) => num = 0

\* C17: every frame of every buffer audio_callback writes (tone, ring-out or
\* silence) has CHANNELS values, all the same.
C17_ChannelsIdentical ==
    /\ Len(outdata) = frames
    /\ \A i \in 1..Len(outdata) :
           /\ DOMAIN outdata[i] = 1..CHANNELS
           /\ \A c \in 1..CHANNELS : outdata[i][c] = outdata[i][1]

\* A buffer of several channels that holds ring-out samples, then silence.
C17_Witness ==
    /\ CHANNELS = MaxChannels
    /\ ~gate
    /\ num > 0
    /\ num < frames
    /\ outdata[1][CHANNELS] # Silence
    /\ outdata[frames][CHANNELS] = Silence

\* C18: a released invocation that generates num samples from the stored
\* offset o ends within the cycle: o + num / sample_rate <= period, and the
\* offset it stores is 0 or greater than o, never a positive phase of a new
\* cycle.
C18_RingOutStaysInCycle ==
    (frames > 0 /\ ~gate /\ num > 0) =>
        /\ offset0 + num * FREQUENCY <= SAMPLERATE
        /\ \/ offset = 0 /\ ~residue
           \/ offset > offset0

(***************************************************************************)
(* Properties of generate_audio (GenSpec).                                 *)
(***************************************************************************)
\* C3: the samples of consecutive calls, each given the offset the previous
\* one returned, are the samples of one call from the first offset over the
\* summed sample count; and the offsets returned agree.
C3_PhaseContinuity ==
    LET whole == generate_audio(genTotal, genStart)
    IN  /\ genStream = whole.audio
        /\ offset = whole.offset

\* Three non-empty calls from a non-zero offset, more than two periods long.
C3_Witness ==
    /\ genCalls = MaxCalls
    /\ Len(genStream) = genTotal
    /\ genTotal > num
    /\ num > 0
    /\ genStart > 0
    /\ genStart + genTotal * FREQUENCY > 2 * SAMPLERATE

\* C9: the offset generate_audio returns is in [0, period) and differs from
\* offset + num_samples / sample_rate by a whole number of periods.
C9_ReturnedOffset ==
    genCalls > 0 =>
        /\ 0 <= offset
        /\ offset < SAMPLERATE
        /\ (offset0 + num * FREQUENCY - offset) % SAMPLERATE = 0

\* A call that ends exactly on a period boundary, more than one period on.
C9_Witness ==
    /\ genCalls > 0
    /\ num > 0
    /\ offset0 > 0
    /\ offset0 + num * FREQUENCY >= 2 * SAMPLERATE
    /\ offset = 0

\* C16: generate_audio(0, offset), offset in [0, period), returns no sample
\* and the offset it was given.
C16_ZeroSamples ==
    (genCalls > 0 /\ num = 0) =>
        /\ outdata = <<>>
        /\ offset = offset0
        /\ residue = residue0

\* An empty call after a non-empty one, from inside the period.
C16_Witness ==
    /\ genCalls > 1
    /\ genTotal > 0
    /\ num = 0
    /\ offset0 > 0
    /\ offset = offset0
    /\ Len(genStream) = genTotal

(***************************************************************************)
(* Properties of the program as a whole (MainSpec).                        *)
(***************************************************************************)
\* C2: while the stream is open the listener is running, so that the state
\* of every designated key follows the operator's presses and releases.
C2_ListenerRunsWhileStreamOpen ==
    stream = "open" =>
        /\ listener = "running"
        /\ \A k \in Designated :
               lastEvent[k] # "none" => (keys[k] <=> lastEvent[k] = "press")

\* C11: in every state where the stream is open, the device it was opened
\* on is the device the operator selected: --device if given and in range,
\* the result of choose_device otherwise.
C11_StreamOnSelectedDevice ==
    stream = "open" =>
        /\ InRange(OUTPUT_DEVICE)
        /\ streamDevice = OUTPUT_DEVICE

C14_ChooseDevice ==
    /\ [](pc = "choose_device" =>
             /\ retries = typed
             /\ retries <= 5
             /\ OUTPUT_DEVICE = <<>>)
    /\ [][(pc = "choose_device" /\ typed' # typed) =>
             LET e == lastEntry'
             IN  IF e # <<>> /\ e[1] \in 0..(NumDevices - 1)
                 THEN /\ pc' = "listener"
                      /\ OUTPUT_DEVICE' = e
                      /\ retries' = retries
                 ELSE /\ pc' = "choose_device"
                      /\ OUTPUT_DEVICE' = <<>>
                      /\ retries' = retries + 1]_vars
    /\ [][(pc = "choose_device" /\ typed' = typed /\ pc' # pc) =>
             /\ typed = 5
             /\ pc' = "exit"
             /\ exitStatus' = <<1>>
             /\ OUTPUT_DEVICE' = <<>>]_vars
    /\ [](typed = 5 /\ retries = 5 => pc \in {"choose_device", "exit"})

\* choose_device returned the fifth entry, after four it rejected.
C14_Witness ==
    /\ pc = "listener"
    /\ typed = 5
    /\ retries = 4
    /\ lastEntry = <<NumDevices - 1>>
    /\ OUTPUT_DEVICE = lastEntry

(***************************************************************************)
(* Properties of the three contexts together (FrameSpec).                  *)
(***************************************************************************)
\* C13: the stored offset is written by audio_callback only: a step of
\* on_press or on_release (one that changes a key state or records a key
\* event) leaves it unchanged, and so does a step of __main__ once the
\* listener exists; and a step that writes the offset or the buffer, which
\* is a step of audio_callback on the open stream, leaves every key state
\* and the gate unchanged.
C13_OffsetOwnedByCallback ==
    [][/\ (keys' # keys \/ lastEvent' # lastEvent) =>
              UNCHANGED <<offset, residue, outdata>>
       /\ pc' # pc => UNCHANGED <<offset, residue, outdata>>
       /\ renderVars' # renderVars =>
              /\ keys' = keys
              /\ all(keys') <=> all(keys)
              /\ stream = "open"
              /\ pc' = pc]_vars

\* A tone buffer left the offset inside the period; then a key was released
\* and the program ran to its end, and the offset is still there.
C13_Witness ==
    /\ pc = "done"
    /\ gate
    /\ offset # 0
    /\ offset = (offset0 + frames * FREQUENCY) % SAMPLERATE
    /\ ~all(keys)
    /\ \E k \in Designated : lastEvent[k] = "release"

=============================================================================
